---- MODULE Spec2Model ----
(***************************************************************************)
(* ShardingConnectionHook (src/mongo/s/client/sharding_connection_hook.cpp)*)
(* The connection pool calls onCreate / onRelease / onDestroy on each      *)
(* connection; onCreate is followed step by step (pc), the other two are   *)
(* single calls.                                                           *)
(***************************************************************************)
EXTENDS Integers, Sequences, FiniteSets, TLC

\* ---------------------------------------------------------------- bounds
NumConns == 1
MaxSubConns == 1
NumCreators == 2

Conns == 1..NumConns

\* the connections being admitted at the same time by different threads
Creators == 1..NumCreators

\* ------------------------------------------------------------- constants
\* ConnectionString::ConnectionType values a DBClientBase::type() can return
Kinds == {"MASTER", "SYNC", "SET"}

\* the kinds VersionManager::isVersionableCB accepts
VersionableKinds == {"MASTER", "SET"}

\* every connection has its own backend
HostAndPort(c) == [host |-> "node", port |-> 27016 + c]

AuthFailedCode == "Location15847"
ProtocolViolationCode == "Location28785"

\* ------------------------------------------------------------ BSON values
Elem(t, n, f, s) == [type |-> t, num |-> n, frac |-> f, str |-> s]
EOO == Elem("EOO", 0, FALSE, "")

ConfigsvrElems ==
    {EOO, Elem("NumberInt", 0, FALSE, ""), Elem("NumberInt", 1, FALSE, ""),
     Elem("NumberInt", 7, FALSE, ""), Elem("NumberDouble", 1, FALSE, ""),
     Elem("NumberDouble", 0, TRUE, ""), Elem("String", 0, FALSE, "1")}

SetNameElems == {EOO, Elem("String", 0, FALSE, "rs0"), Elem("NumberInt", 5, FALSE, "")}

\* The reply documents the probed server can send
Responses ==
    [ok : {"1"}, code : {"absent"}, configsvr : ConfigsvrElems, setName : SetNameElems]
    \cup [ok : {"0"}, code : {"absent", "Unauthorized"},
          configsvr : {EOO, Elem("NumberInt", 7, FALSE, ""), Elem("NumberInt", 1, FALSE, "")},
          setName : {EOO, Elem("String", 0, FALSE, "rs0")}]
    \cup [ok : {"absent"}, code : {"absent"}, configsvr : {EOO, Elem("NumberInt", 0, FALSE, "")},
          setName : {EOO}]

\* BSONObj isMasterResponse;  -- a default-constructed (empty) document
EmptyObj == [ok |-> "absent", code |-> "absent", configsvr |-> EOO, setName |-> EOO]

\* What an uninitialised long long may hold when it is read
UninitValues == {0, 1, 7}

\* Statuses scheduleReplaceCatalogManagerIfNeeded can return
TriggerStatuses == {"OK", "IncompatibleCatalogManager", "ExceededTimeLimit"}

VARIABLES
    shardedConnections,      \* ShardingConnectionHook::_shardedConnections
    authEnabled,             \* getGlobalAuthorizationManager()->isAuthEnabled()
    type,                    \* conn->type()
    addr,                    \* conn->getServerHostAndPort()
    destroyed,               \* the pool has discarded the connection
    pc,                      \* position of the onCreate call on the connection
    phase,                   \* lifecycle of the connection as the pool sees it
    ret,                     \* what the last hook call returned to the pool
    log,                     \* operations onCreate performed on the connection
    replyMetadataReader,     \* conn's reply-metadata reader
    requestMetadataWriter,   \* conn's request-metadata writer
    queryHandler,            \* the SCC's attached query handler
    isMasterResponse,        \* local of onCreate
    configServerModeNumber,  \* local of onCreate
    status,                  \* local of onCreate
    triggerCalls,            \* calls of scheduleReplaceCatalogManagerIfNeeded
    cachedVersion,           \* versionManager has a shard version for conn
    subConns,                \* secondary sub-connections the conn holds
    destroyCalls             \* collaborator calls made by onDestroy

vars == <<shardedConnections, authEnabled, type, addr, destroyed, pc, phase, ret, log,
          replyMetadataReader, requestMetadataWriter, queryHandler,
          isMasterResponse, configServerModeNumber, status, triggerCalls,
          cachedVersion, subConns, destroyCalls>>

hookVars == <<shardedConnections, authEnabled, type, addr>>
connVars == <<replyMetadataReader, requestMetadataWriter, queryHandler>>
localVars == <<isMasterResponse, configServerModeNumber, status>>
trackVars == <<cachedVersion, subConns, destroyCalls>>

NoRet == [op |-> "none", status |-> "OK"]

\* the state after construction of the hook, for the connections in S
InitOn(S) ==
    /\ shardedConnections \in BOOLEAN
    /\ authEnabled \in BOOLEAN
    /\ type \in [S -> Kinds]
    /\ addr = [c \in S |-> HostAndPort(c)]
    /\ destroyed = [c \in S |-> FALSE]
    /\ pc = [c \in S |-> "idle"]
    /\ phase = [c \in S |-> "new"]
    /\ ret = [c \in S |-> NoRet]
    /\ log = [c \in S |-> <<>>]
    /\ replyMetadataReader = [c \in S |-> "none"]
    /\ requestMetadataWriter = [c \in S |-> "none"]
    /\ queryHandler = [c \in S |-> "none"]
    /\ isMasterResponse = [c \in S |-> EmptyObj]
    /\ configServerModeNumber = [c \in S |-> 0]
    /\ status = [c \in S |-> "OK"]
    /\ triggerCalls = [c \in S |-> <<>>]
    /\ cachedVersion = [c \in S |-> FALSE]
    /\ subConns = [c \in S |-> 0]
    /\ destroyCalls = [c \in S |-> <<>>]

Init == InitOn(Conns)

\* ------------------------------------------------- collaborators' results
\* DBClientWithCommands::isOk
isOk(r) == r.ok = "1"

\* DBClientWithCommands::runCommand returns isOk(info)
runCommand(r) == isOk(r)

getStatusFromCommandResult(r) ==
    IF r.ok = "absent" THEN "CommandResultSchemaViolation"
    ELSE IF r.ok = "1" THEN "OK"
    ELSE IF r.code = "absent" THEN "UnknownError"
    ELSE r.code

\* status part of bsonExtractIntegerField
bsonExtractIntegerField(e) ==
    IF e.type = "EOO" THEN "NoSuchKey"
    ELSE IF e.type \notin {"NumberInt", "NumberLong", "NumberDouble"} THEN "TypeMismatch"
    ELSE IF e.frac THEN "BadValue"
    ELSE "OK"

\* ---------------------------------------------------- decisions of onCreate
\* uassert(15847, ..., result) under isAuthEnabled()
AuthAbortsUnchecked(enabled, result) == FALSE
AuthAborts(enabled, result) == enabled /\ ~result

\* if (getGlobalAuthorizationManager()->isAuthEnabled())
AuthAttemptedAlways(enabled) == TRUE
AuthAttempted(enabled) == enabled

\* if (_shardedConnections) conn->setReplyMetadataReader(...)
InstallsReaderAlways(flag) == TRUE
\* the reader is never installed (or is removed again on failure)
InstallsReaderNever(flag) == FALSE
InstallsReader(flag) == flag

\* if (conn->type() == ConnectionString::SYNC)
IsSync(t) == t = "SYNC"

\* else if (conn->type() == ConnectionString::MASTER)
IsMasterOrSet(t) == t \in {"MASTER", "SET"}
IsMaster(t) == t = "MASTER"

\* if (!conn->runCommand(...)) uassertStatusOK(getStatusFromCommandResult(...))
ProbeAbortsNever(r) == FALSE
ProbeAbortsOnCodeOnly(r) == ~runCommand(r) /\ r.code # "absent"
ProbeAborts(r) == ~runCommand(r) /\ getStatusFromCommandResult(r) # "OK"

\* if (status == ErrorCodes::NoSuchKey) return;
NotConfigServerNever(st) == FALSE
NotConfigServer(st) == st = "NoSuchKey"

\* the condition of uassert(28785, ...)
ModeNumberAcceptedNonNegative(n) == n >= 0
ModeNumberAccepted(n) == n = 0 \/ n = 1

\* configServerModeNumber == 0 ? SCCC : CSRS
ConfigServerModeSwapped(n) == IF n = 1 THEN "SCCC" ELSE "CSRS"
ConfigServerMode(n) == IF n = 0 THEN "SCCC" ELSE "CSRS"

\* setName.type() == String ? setName.valueStringData() : StringData()
SetNameArg(e) == IF e.type = "String" THEN e.str ELSE ""

\* uassertStatusOK(status) after the trigger: what onCreate ends with
TriggerOutcomeIgnored(st) == "OK"
TriggerOutcome(st) == st

\* _shardedConnections && versionManager.isVersionableCB(conn)
ResetsVersionWheneverSharded(flag, versionable) == flag
ResetsVersionInverted(flag, versionable) == flag /\ ~versionable
ResetsVersion(flag, versionable) == flag /\ versionable

\* VersionManager::isVersionableCB
isVersionableCB(c) == type[c] \in VersionableKinds

\* --------------------------------------------------------------- onCreate
Ev(o, r) == [op |-> o, out |-> r]

\* a failed trigger call is made again instead of ending the call
ReturnRetrying(c, st) ==
    IF st # "OK" /\ pc[c] = "uassert"
    THEN /\ pc' = [pc EXCEPT ![c] = "trigger"]
         /\ UNCHANGED <<phase, ret, isMasterResponse, configServerModeNumber, status>>
    ELSE /\ pc' = [pc EXCEPT ![c] = "idle"]
         /\ phase' = [phase EXCEPT ![c] = IF st = "OK" THEN "admitted" ELSE "rejected"]
         /\ ret' = [ret EXCEPT ![c] = [op |-> "onCreate", status |-> st]]
         /\ isMasterResponse' = [isMasterResponse EXCEPT ![c] = EmptyObj]
         /\ configServerModeNumber' = [configServerModeNumber EXCEPT ![c] = 0]
         /\ status' = [status EXCEPT ![c] = "OK"]

\* a reply buffer shared by all calls instead of a local
ReturnShared(c, st) ==
    /\ pc' = [pc EXCEPT ![c] = "idle"]
    /\ phase' = [phase EXCEPT ![c] = IF st = "OK" THEN "admitted" ELSE "rejected"]
    /\ ret' = [ret EXCEPT ![c] = [op |-> "onCreate", status |-> st]]
    /\ isMasterResponse' = [d \in DOMAIN isMasterResponse |-> EmptyObj]
    /\ configServerModeNumber' = [configServerModeNumber EXCEPT ![c] = 0]
    /\ status' = [status EXCEPT ![c] = "OK"]

\* return from (or throw out of) onCreate: the locals go out of scope
Return(c, st) ==
    /\ pc' = [pc EXCEPT ![c] = "idle"]
    /\ phase' = [phase EXCEPT ![c] = IF st = "OK" THEN "admitted" ELSE "rejected"]
    /\ ret' = [ret EXCEPT ![c] = [op |-> "onCreate", status |-> st]]
    /\ isMasterResponse' = [isMasterResponse EXCEPT ![c] = EmptyObj]
    /\ configServerModeNumber' = [configServerModeNumber EXCEPT ![c] = 0]
    /\ status' = [status EXCEPT ![c] = "OK"]

Goto(c, l) ==
    /\ pc' = [pc EXCEPT ![c] = l]
    /\ phase' = [phase EXCEPT ![c] = "creating"]
    /\ UNCHANGED ret

Logged(c, ev) == log' = [log EXCEPT ![c] = Append(@, ev)]

\* the pool calls onCreate once, on a connection it has just established
Fresh(c) == pc[c] = "idle" /\ phase[c] = "new" /\ ~destroyed[c] /\ ~cachedVersion[c]

\* lines 58-69
OnCreateAuth(c) ==
    /\ Fresh(c)
    /\ IF AuthAttempted(authEnabled)
       THEN \E result \in BOOLEAN :
              /\ Logged(c, Ev("authenticateInternalUser", IF result THEN "true" ELSE "false"))
              /\ IF AuthAborts(authEnabled, result)
                 THEN Return(c, AuthFailedCode)
                 ELSE Goto(c, "install") /\ UNCHANGED localVars
       ELSE /\ Goto(c, "install")
            /\ UNCHANGED <<log, localVars>>
    /\ UNCHANGED <<hookVars, destroyed, connVars, triggerCalls, trackVars>>

\* lines 71-88
OnCreateInstall(c) ==
    /\ pc[c] = "install"
    /\ IF InstallsReader(shardedConnections)
       THEN /\ replyMetadataReader' = [replyMetadataReader EXCEPT ![c] = "saveGLEStats"]
            /\ log' = [log EXCEPT ![c] = @ \o <<Ev("setReplyMetadataReader", ""),
                                                 Ev("setRequestMetadataWriter", "")>>]
       ELSE /\ UNCHANGED replyMetadataReader
            /\ Logged(c, Ev("setRequestMetadataWriter", ""))
    /\ requestMetadataWriter' =
           [requestMetadataWriter EXCEPT ![c] = "writeImpersonatedUsersToMetadata"]
    /\ Goto(c, "topology")
    /\ UNCHANGED <<hookVars, destroyed, queryHandler, localVars, triggerCalls, trackVars>>

\* lines 92-99: dispatch on conn->type(); the MASTER branch sends the probe
OnCreateTopology(c) ==
    /\ pc[c] = "topology"
    /\ IF IsSync(type[c])
       THEN /\ queryHandler' = [queryHandler EXCEPT ![c] = "SCCFastQueryHandler"]
            /\ Logged(c, Ev("attachQueryHandler", ""))
            /\ Return(c, "OK")
       ELSE IF IsMaster(type[c])
       THEN /\ Logged(c, Ev("runCommand", "pending"))
            /\ Goto(c, "probe")
            /\ UNCHANGED <<queryHandler, localVars>>
       ELSE /\ Return(c, "OK")
            /\ UNCHANGED <<queryHandler, log>>
    /\ UNCHANGED <<hookVars, destroyed, replyMetadataReader, requestMetadataWriter,
                   triggerCalls, trackVars>>

\* line 99: the probe's round trip ends, runCommand has filled isMasterResponse
\* with one of the replies in R
ProbeReturn(c, R) ==
    /\ pc[c] = "probe"
    /\ \E r \in R :
         /\ isMasterResponse' = [isMasterResponse EXCEPT ![c] = r]
         /\ log' = [log EXCEPT ![c][Len(log[c])] =
                       Ev("runCommand", IF runCommand(r) THEN "true" ELSE "false")]
    /\ Goto(c, "extract")
    /\ UNCHANGED <<hookVars, destroyed, connVars, configServerModeNumber, status,
                   triggerCalls, trackVars>>

OnCreateProbeReturn(c) == ProbeReturn(c, Responses)

\* lines 99-115
OnCreateExtract(c) ==
    /\ pc[c] = "extract"
    /\ LET r == isMasterResponse[c]
           st == bsonExtractIntegerField(r.configsvr)
       IN IF ProbeAborts(r)
          THEN Return(c, getStatusFromCommandResult(r)) /\ UNCHANGED log
          ELSE /\ Logged(c, Ev("bsonExtractIntegerField", ""))
               /\ IF NotConfigServer(st)
                  THEN Return(c, "OK")
                  ELSE \E n \in (IF st = "OK" THEN {r.configsvr.num} ELSE UninitValues) :
                         IF ModeNumberAccepted(n)
                         THEN /\ Goto(c, "trigger")
                              /\ configServerModeNumber' =
                                     [configServerModeNumber EXCEPT ![c] = n]
                              /\ status' = [status EXCEPT ![c] = st]
                              /\ UNCHANGED isMasterResponse
                         ELSE Return(c, ProtocolViolationCode)
    /\ UNCHANGED <<hookVars, destroyed, connVars, triggerCalls, trackVars>>

\* lines 117-122: the call of the catalog manager's trigger
OnCreateTrigger(c) ==
    /\ pc[c] = "trigger"
    /\ triggerCalls' = [triggerCalls EXCEPT ![c] = Append(@,
           [mode |-> ConfigServerMode(configServerModeNumber[c]),
            setName |-> SetNameArg(isMasterResponse[c].setName),
            host |-> addr[c]])]
    /\ Logged(c, Ev("scheduleReplaceCatalogManagerIfNeeded", ""))
    /\ \E st \in TriggerStatuses : status' = [status EXCEPT ![c] = st]
    /\ Goto(c, "uassert")
    /\ UNCHANGED <<hookVars, destroyed, connVars, isMasterResponse,
                   configServerModeNumber, trackVars>>

\* lines 123-125
OnCreateFinish(c) ==
    /\ pc[c] = "uassert"
    /\ Return(c, TriggerOutcome(status[c]))
    /\ UNCHANGED <<hookVars, destroyed, connVars, log, triggerCalls, trackVars>>

\* -------------------------------------------------- onDestroy / onRelease
\* the pool makes one lifecycle call at a time on a connection it still holds
Callable(c) == pc[c] = "idle" /\ ~destroyed[c]

\* lines 127-131
onDestroy(c) ==
    /\ Callable(c)
    /\ destroyed' = [destroyed EXCEPT ![c] = TRUE]
    /\ IF shardedConnections
       THEN \E v \in {"returns", "throws"} :
              IF v = "throws"
              THEN /\ destroyCalls' = [destroyCalls EXCEPT ![c] = <<Ev("isVersionableCB", v)>>]
                   /\ ret' = [ret EXCEPT ![c] = [op |-> "onDestroy", status |-> "DBException"]]
                   /\ UNCHANGED cachedVersion
              ELSE IF ResetsVersion(shardedConnections, isVersionableCB(c))
              THEN \E r \in {"returns", "throws"} :
                     /\ destroyCalls' = [destroyCalls EXCEPT ![c] =
                            <<Ev("isVersionableCB", v), Ev("resetShardVersionCB", r)>>]
                     /\ cachedVersion' = [cachedVersion EXCEPT ![c] =
                            IF r = "returns" THEN FALSE ELSE @]
                     /\ ret' = [ret EXCEPT ![c] = [op |-> "onDestroy",
                            status |-> IF r = "returns" THEN "OK" ELSE "DBException"]]
              ELSE /\ destroyCalls' = [destroyCalls EXCEPT ![c] = <<Ev("isVersionableCB", v)>>]
                   /\ ret' = [ret EXCEPT ![c] = [op |-> "onDestroy", status |-> "OK"]]
                   /\ UNCHANGED cachedVersion
       ELSE /\ ret' = [ret EXCEPT ![c] = [op |-> "onDestroy", status |-> "OK"]]
            /\ UNCHANGED <<destroyCalls, cachedVersion>>
    /\ UNCHANGED <<hookVars, pc, phase, log, connVars, localVars, triggerCalls, subConns>>

\* a release that also takes the connection's callbacks away
onReleaseDropsCallbacks(c) ==
    /\ Callable(c) /\ phase[c] # "new"
    /\ \E r \in {"returns", "throws"} :
         /\ subConns' = [subConns EXCEPT ![c] = IF r = "returns" THEN 0 ELSE @]
         /\ ret' = [ret EXCEPT ![c] = [op |-> "onRelease",
                status |-> IF r = "returns" THEN "OK" ELSE "DBException"]]
    /\ requestMetadataWriter' = [requestMetadataWriter EXCEPT ![c] = "none"]
    /\ replyMetadataReader' = [replyMetadataReader EXCEPT ![c] = "none"]
    /\ UNCHANGED <<hookVars, destroyed, pc, phase, log, queryHandler, localVars,
                   triggerCalls, cachedVersion, destroyCalls>>

\* lines 133-137
onRelease(c) ==
    /\ Callable(c) /\ phase[c] # "new"
    /\ \E r \in {"returns", "throws"} :
         /\ subConns' = [subConns EXCEPT ![c] = IF r = "returns" THEN 0 ELSE @]
         /\ ret' = [ret EXCEPT ![c] = [op |-> "onRelease",
                status |-> IF r = "returns" THEN "OK" ELSE "DBException"]]
    /\ UNCHANGED <<hookVars, destroyed, pc, phase, log, connVars, localVars, triggerCalls,
                   cachedVersion, destroyCalls>>

\* ------------------------------------------------------------ environment
\* the router sends a versioned request on the connection
checkShardVersionCB(c) ==
    /\ Callable(c)
    /\ ~cachedVersion[c]
    /\ cachedVersion' = [cachedVersion EXCEPT ![c] = TRUE]
    /\ UNCHANGED <<hookVars, destroyed, pc, phase, ret, log, connVars, localVars,
                   triggerCalls, subConns, destroyCalls>>

\* a replica-set connection checks a secondary out of the pool
selectNodeUsingTags(c) ==
    /\ Callable(c) /\ phase[c] = "admitted" /\ type[c] = "SET"
    /\ subConns[c] < MaxSubConns
    /\ subConns' = [subConns EXCEPT ![c] = @ + 1]
    /\ UNCHANGED <<hookVars, destroyed, pc, phase, ret, log, connVars, localVars,
                   triggerCalls, cachedVersion, destroyCalls>>

Next ==
    \/ \E c \in Conns : OnCreateAuth(c)
    \/ \E c \in Conns : OnCreateInstall(c)
    \/ \E c \in Conns : OnCreateTopology(c)
    \/ \E c \in Conns : OnCreateProbeReturn(c)
    \/ \E c \in Conns : OnCreateExtract(c)
    \/ \E c \in Conns : OnCreateTrigger(c)
    \/ \E c \in Conns : OnCreateFinish(c)
    \/ \E c \in Conns : onDestroy(c)
    \/ \E c \in Conns : onRelease(c)
    \/ \E c \in Conns : checkShardVersionCB(c)
    \/ \E c \in Conns : selectNodeUsingTags(c)

Spec == Init /\ [][Next]_vars

\* ------------------------------------------- concurrent admission (onCreate)
\* one reply of each kind the hook tells apart
ConcResponses ==
    {[ok |-> "0", code |-> "Unauthorized", configsvr |-> EOO, setName |-> EOO],
     [ok |-> "1", code |-> "absent", configsvr |-> EOO, setName |-> EOO],
     [ok |-> "1", code |-> "absent", configsvr |-> Elem("NumberInt", 0, FALSE, ""),
      setName |-> Elem("String", 0, FALSE, "rs0")],
     [ok |-> "1", code |-> "absent", configsvr |-> Elem("NumberInt", 7, FALSE, ""),
      setName |-> EOO],
     [ok |-> "1", code |-> "absent", configsvr |-> Elem("String", 0, FALSE, "1"),
      setName |-> EOO]}

InitConc == InitOn(Creators)

OnCreateProbeReturnConc(c) == ProbeReturn(c, ConcResponses)

\* the steps of the onCreate call running on c, the blocking round trip apart
OnCreateStep(c) ==
    \/ OnCreateAuth(c)
    \/ OnCreateInstall(c)
    \/ OnCreateTopology(c)
    \/ OnCreateExtract(c)
    \/ OnCreateTrigger(c)
    \/ OnCreateFinish(c)

NextConc ==
    \/ \E c \in Creators : OnCreateAuth(c)
    \/ \E c \in Creators : OnCreateInstall(c)
    \/ \E c \in Creators : OnCreateTopology(c)
    \/ \E c \in Creators : OnCreateProbeReturnConc(c)
    \/ \E c \in Creators : OnCreateExtract(c)
    \/ \E c \in Creators : OnCreateTrigger(c)
    \/ \E c \in Creators : OnCreateFinish(c)

SpecConc == InitConc /\ [][NextConc]_vars

TypeOK ==
    /\ pc \in [Conns -> {"idle", "install", "topology", "probe", "extract", "trigger", "uassert"}]
    /\ phase \in [Conns -> {"new", "creating", "admitted", "rejected"}]
    /\ destroyed \in [Conns -> BOOLEAN]
    /\ \A c \in Conns : subConns[c] \in 0..MaxSubConns

\* ------------------------------------------------------------- the claims
HasEv(c, o, r) == \E i \in 1..Len(log[c]) : log[c][i] = Ev(o, r)
HasOp(c, o) == \E i \in 1..Len(log[c]) : log[c][i].op = o
LastEv(c) == log[c][Len(log[c])]
AuthFailed(c) == authEnabled /\ HasEv(c, "authenticateInternalUser", "false")
IsInteger(e) == e.type \in {"NumberInt", "NumberLong", "NumberDouble"} /\ ~e.frac
\* the step taken is a step of the onCreate running on c
Steps(c) == pc'[c] # pc[c]
ProbeSucceeded(c) == type[c] = "MASTER" /\ isMasterResponse[c].ok = "1"

\* C1: when authentication is enforced and authenticateInternalUser returns
\* false, onCreate has aborted with the authentication error and neither
\* metadata callback is installed, no probe was sent, no trigger call made.
C1_AuthFailureInstallsNothing ==
    \A c \in Conns :
        AuthFailed(c) =>
            /\ pc[c] = "idle" /\ phase[c] = "rejected"
            /\ (ret[c].op = "onCreate" => ret[c].status = AuthFailedCode)
            /\ replyMetadataReader[c] = "none"
            /\ requestMetadataWriter[c] = "none"
            /\ ~HasOp(c, "runCommand")
            /\ triggerCalls[c] = <<>>

C1_Witness ==
    \E c \in Conns :
        /\ AuthFailed(c) /\ shardedConnections /\ type[c] = "MASTER"
        /\ ret[c] = [op |-> "onCreate", status |-> AuthFailedCode]

\* C2: once onCreate is past authentication and installation, the reply
\* reader is installed exactly when the hook's flag is true and the request
\* writer is installed in every case, for every connection kind.
PastInstall(c) ==
    \/ pc[c] \in {"topology", "probe", "extract", "trigger", "uassert"}
    \/ phase[c] = "admitted"
    \/ phase[c] = "rejected" /\ ~AuthFailed(c)

C2_ReaderIffFlagWriterAlways ==
    \A c \in Conns :
        PastInstall(c) =>
            /\ replyMetadataReader[c] = (IF shardedConnections THEN "saveGLEStats" ELSE "none")
            /\ requestMetadataWriter[c] = "writeImpersonatedUsersToMetadata"

C2_Witness ==
    \E c \in Conns :
        /\ PastInstall(c) /\ ~shardedConnections /\ type[c] = "SYNC"
        /\ replyMetadataReader[c] = "none"
        /\ requestMetadataWriter[c] = "writeImpersonatedUsersToMetadata"

\* C3: on a single-node connection whose successful probe reply has
\* configsvr 0 or 1, onCreate calls the trigger exactly once, with SCCC for
\* 0 and CSRS for 1, the reply's setName when it is a string and the empty
\* name otherwise, and the connection's own host and port.
ConfigsvrZeroOrOne(c) ==
    /\ ProbeSucceeded(c)
    /\ IsInteger(isMasterResponse[c].configsvr)
    /\ isMasterResponse[c].configsvr.num \in {0, 1}

ExpectedCall(c) ==
    [mode |-> IF isMasterResponse[c].configsvr.num = 0 THEN "SCCC" ELSE "CSRS",
     setName |-> IF isMasterResponse[c].setName.type = "String"
                 THEN isMasterResponse[c].setName.str ELSE "",
     host |-> HostAndPort(c)]

C3_TriggerCalledOnceWithModeNameHost ==
    [][\A c \in Conns :
        /\ (Steps(c) /\ pc[c] = "extract" /\ ConfigsvrZeroOrOne(c)) =>
              /\ pc'[c] = "trigger"
              /\ isMasterResponse'[c] = isMasterResponse[c]
              /\ triggerCalls'[c] = <<>>
        /\ (Steps(c) /\ pc[c] = "trigger" /\ ConfigsvrZeroOrOne(c)) =>
              triggerCalls'[c] = <<ExpectedCall(c)>>
        /\ pc[c] # "trigger" => triggerCalls'[c] = triggerCalls[c]]_vars

C3_Witness ==
    \E c \in Conns :
        /\ pc[c] = "uassert"
        /\ isMasterResponse[c].configsvr = Elem("NumberInt", 0, FALSE, "")
        /\ triggerCalls[c] = <<[mode |-> "SCCC", setName |-> "rs0", host |-> addr[c]]>>

\* C4 as stated: whenever the probe reply of a single-node connection has an
\* integer configsvr other than 0 and 1, onCreate fails with the protocol
\* violation and makes no trigger call.
ConfigsvrOtherInteger(c) ==
    /\ type[c] = "MASTER"
    /\ IsInteger(isMasterResponse[c].configsvr)
    /\ isMasterResponse[c].configsvr.num \notin {0, 1}

C4_Original ==
    [][\A c \in Conns :
        (Steps(c) /\ pc[c] = "extract" /\ ConfigsvrOtherInteger(c)) =>
            /\ ret'[c] = [op |-> "onCreate", status |-> ProtocolViolationCode]
            /\ triggerCalls'[c] = <<>>]_vars

\* C4 (amended): whenever the reply of a successful probe of a single-node
\* connection has an integer configsvr other than 0 and 1, onCreate fails
\* with the protocol violation (28785), and no trigger call is made during
\* that onCreate.
C4_ProtocolViolationNoTrigger ==
    [][\A c \in Conns :
        /\ (Steps(c) /\ pc[c] = "extract" /\ ConfigsvrOtherInteger(c) /\ ProbeSucceeded(c)) =>
              /\ pc'[c] = "idle" /\ phase'[c] = "rejected"
              /\ ret'[c] = [op |-> "onCreate", status |-> ProtocolViolationCode]
              /\ triggerCalls'[c] = <<>>
        /\ ret[c] = [op |-> "onCreate", status |-> ProtocolViolationCode] =>
              triggerCalls'[c] = <<>>]_vars

C4_Witness ==
    \E c \in Conns :
        /\ pc[c] = "extract" /\ ProbeSucceeded(c)
        /\ isMasterResponse[c].configsvr = Elem("NumberInt", 7, FALSE, "")
        /\ LastEv(c) = Ev("runCommand", "true")

\* C5 as stated: whenever the probe reply of a single-node connection has no
\* configsvr field, onCreate completes successfully without a trigger call.
C5_Original ==
    [][\A c \in Conns :
        (Steps(c) /\ pc[c] = "extract" /\ type[c] = "MASTER"
            /\ isMasterResponse[c].configsvr.type = "EOO") =>
            /\ ret'[c] = [op |-> "onCreate", status |-> "OK"]
            /\ triggerCalls'[c] = <<>>]_vars

\* C5 (amended): whenever the reply of a successful probe of a single-node
\* connection has no configsvr field, onCreate completes successfully and
\* the trigger is not called at any point of that onCreate.
C5_NoConfigsvrAdmitsWithoutTrigger ==
    [][\A c \in Conns :
        (Steps(c) /\ pc[c] = "extract" /\ ProbeSucceeded(c)
            /\ isMasterResponse[c].configsvr.type = "EOO") =>
            /\ pc'[c] = "idle" /\ phase'[c] = "admitted"
            /\ ret'[c] = [op |-> "onCreate", status |-> "OK"]
            /\ triggerCalls[c] = <<>> /\ triggerCalls'[c] = <<>>
            /\ ~HasOp(c, "scheduleReplaceCatalogManagerIfNeeded")]_vars

C5_Witness ==
    \E c \in Conns :
        /\ type[c] = "MASTER" /\ phase[c] = "admitted" /\ pc[c] = "idle"
        /\ ret[c] = [op |-> "onCreate", status |-> "OK"]
        /\ LastEv(c) = Ev("bsonExtractIntegerField", "")
        /\ triggerCalls[c] = <<>>

NoThrow(calls) == \A i \in 1..Len(calls) : calls[i].out # "throws"

C7_DestroyReleaseNeverFail ==
    \A c \in Conns :
        ret[c].op \in {"onDestroy", "onRelease"} => ret[c].status = "OK"

\* C8: the steps of one onCreate run in the order authentication, callback
\* installation, topology step, and nothing runs after a failed step: no
\* installation after an authentication failure, no extraction or trigger
\* call after a probe failure, no trigger call after a protocol violation.
Rank(o) ==
    CASE o = "authenticateInternalUser" -> 1
      [] o = "setReplyMetadataReader" -> 2
      [] o = "setRequestMetadataWriter" -> 3
      [] o = "attachQueryHandler" -> 4
      [] o = "runCommand" -> 4
      [] o = "bsonExtractIntegerField" -> 5
      [] o = "scheduleReplaceCatalogManagerIfNeeded" -> 6

C8_FixedOrderShortCircuit ==
    \A c \in Conns :
        /\ \A i, j \in 1..Len(log[c]) :
              i < j => Rank(log[c][i].op) < Rank(log[c][j].op)
        /\ (HasOp(c, "setRequestMetadataWriter") /\ authEnabled) =>
              log[c][1] = Ev("authenticateInternalUser", "true")
        /\ (HasOp(c, "runCommand") \/ HasOp(c, "attachQueryHandler")) =>
              HasOp(c, "setRequestMetadataWriter")
        /\ HasOp(c, "bsonExtractIntegerField") => HasEv(c, "runCommand", "true")
        /\ HasOp(c, "scheduleReplaceCatalogManagerIfNeeded") =>
              HasOp(c, "bsonExtractIntegerField")
        /\ HasEv(c, "authenticateInternalUser", "false") => Len(log[c]) = 1
        /\ HasEv(c, "runCommand", "false") =>
              /\ LastEv(c) = Ev("runCommand", "false")
              /\ triggerCalls[c] = <<>>
        /\ ret[c] = [op |-> "onCreate", status |-> ProtocolViolationCode] =>
              /\ ~HasOp(c, "scheduleReplaceCatalogManagerIfNeeded")
              /\ triggerCalls[c] = <<>>

C8_Witness ==
    \E c \in Conns :
        log[c] = <<Ev("authenticateInternalUser", "true"),
                   Ev("setReplyMetadataReader", ""),
                   Ev("setRequestMetadataWriter", ""),
                   Ev("runCommand", "true"),
                   Ev("bsonExtractIntegerField", ""),
                   Ev("scheduleReplaceCatalogManagerIfNeeded", "")>>

\* C9: on a single-node connection, when runCommand has returned false,
\* onCreate aborts with an error, whatever the reply document holds; it
\* neither extracts configsvr nor calls the trigger.
C9_ProbeFailureAborts ==
    [][\A c \in Conns :
        (Steps(c) /\ pc[c] = "extract" /\ type[c] = "MASTER"
            /\ LastEv(c) = Ev("runCommand", "false")) =>
            /\ pc'[c] = "idle" /\ phase'[c] = "rejected"
            /\ ret'[c].op = "onCreate" /\ ret'[c].status # "OK"
            /\ log'[c] = log[c]
            /\ triggerCalls'[c] = <<>>]_vars

C9_Witness ==
    \E c \in Conns :
        /\ type[c] = "MASTER" /\ phase[c] = "rejected"
        /\ LastEv(c) = Ev("runCommand", "false")
        /\ ret[c] = [op |-> "onCreate", status |-> "Unauthorized"]

\* C10: the status the trigger returned is what onCreate ends with: a
\* failure status is surfaced unchanged and rejects the connection, and
\* after a trigger call onCreate succeeds only if the trigger returned OK.
C10_TriggerStatusSurfaced ==
    [][\A c \in Conns :
        /\ (Steps(c) /\ pc[c] = "trigger") =>
              /\ pc'[c] = "uassert"
              /\ status'[c] \in TriggerStatuses
              /\ Len(triggerCalls'[c]) = Len(triggerCalls[c]) + 1
        /\ (Steps(c) /\ pc[c] = "uassert") =>
              /\ pc'[c] = "idle"
              /\ ret'[c] = [op |-> "onCreate", status |-> status[c]]
              /\ phase'[c] = (IF status[c] = "OK" THEN "admitted" ELSE "rejected")]_vars

C10_Witness ==
    \E c \in Conns :
        /\ phase[c] = "rejected" /\ Len(triggerCalls[c]) = 1
        /\ ret[c] = [op |-> "onCreate", status |-> "ExceededTimeLimit"]

\* C11: onRelease is idempotent: every call returns normally and leaves the
\* connection without sub-connections, and a call made when the previous
\* call was a release and nothing is held changes nothing at all.
C11_ReleaseIdempotent ==
    [][\A c \in Conns :
        onRelease(c) =>
            /\ ret'[c] = [op |-> "onRelease", status |-> "OK"]
            /\ subConns'[c] = 0
            /\ (ret[c] = [op |-> "onRelease", status |-> "OK"] /\ subConns[c] = 0) =>
                  UNCHANGED vars]_vars

\* C12: concurrent onCreate calls on distinct connections are independent:
\* whatever the other calls are doing (one blocked in its probe included),
\* the next step of a call that is not itself waiting for its reply can be
\* taken; a step of one call writes nothing of another connection and
\* nothing of the hook; and the status a call ends with is fixed by what its
\* own connection's authentication, probe and trigger returned.
StepsOf(c) == pc'[c] # pc[c] \/ phase'[c] # phase[c]

PerConn(d) ==
    <<type[d], addr[d], destroyed[d], pc[d], phase[d], ret[d], log[d],
      replyMetadataReader[d], requestMetadataWriter[d], queryHandler[d],
      isMasterResponse[d], configServerModeNumber[d], status[d], triggerCalls[d],
      cachedVersion[d], subConns[d], destroyCalls[d]>>

Runnable(c) ==
    Fresh(c) \/ pc[c] \in {"install", "topology", "extract", "trigger", "uassert"}

OwnOutcomes(c) ==
    IF pc[c] = "idle" THEN {AuthFailedCode}
    ELSE IF pc[c] = "topology" THEN {"OK"}
    ELSE IF pc[c] = "extract"
    THEN (IF isMasterResponse[c].ok = "1"
          THEN (IF isMasterResponse[c].configsvr.type = "EOO" THEN {"OK"}
                ELSE {ProtocolViolationCode})
          ELSE IF isMasterResponse[c].ok = "absent" THEN {"CommandResultSchemaViolation"}
          ELSE IF isMasterResponse[c].code = "absent" THEN {"UnknownError"}
          ELSE {isMasterResponse[c].code})
    ELSE IF pc[c] = "uassert" THEN {status[c]}
    ELSE {}

C12_ConcurrentCreatesIndependent ==
    [][\A c \in Creators :
        /\ Runnable(c) => ENABLED OnCreateStep(c)
        /\ StepsOf(c) =>
              /\ \A d \in Creators \ {c} : PerConn(d)' = PerConn(d)
              /\ shardedConnections' = shardedConnections
              /\ authEnabled' = authEnabled
              /\ (pc'[c] = "idle" => ret'[c].status \in OwnOutcomes(c))]_vars

C12_Witness ==
    \E c, d \in Creators :
        /\ c # d
        /\ pc[c] = "probe"
        /\ type[d] = "MASTER" /\ pc[d] = "idle" /\ phase[d] = "admitted"
        /\ Len(triggerCalls[d]) = 1

\* C13: when the probe reply of a single-node connection has a configsvr
\* field that is not a valid integer (a string, a number with a fraction),
\* onCreate aborts and makes no trigger call.
ConfigsvrNotInteger(c) ==
    /\ type[c] = "MASTER"
    /\ isMasterResponse[c].configsvr.type # "EOO"
    /\ ~IsInteger(isMasterResponse[c].configsvr)

C13_InvalidConfigsvrAborts ==
    [][\A c \in Conns :
        (Steps(c) /\ pc[c] = "extract" /\ ConfigsvrNotInteger(c)) =>
            /\ pc'[c] = "idle" /\ phase'[c] = "rejected"
            /\ triggerCalls'[c] = <<>>]_vars

\* C14: the topology step depends on the connection kind only: the probe is
\* sent and the trigger called for single-node (MASTER) connections only; a
\* SYNC connection gets the fast query handler, no probe and no trigger
\* call; any other kind gets no handler, no probe and no trigger call, and
\* its onCreate succeeds once authentication has passed.
TopologyDone(c) ==
    \/ pc[c] \in {"probe", "extract", "trigger", "uassert"}
    \/ pc[c] = "idle" /\ phase[c] \in {"admitted", "rejected"} /\ ~AuthFailed(c)

C14_TopologyByKind ==
    \A c \in Conns :
        /\ (HasOp(c, "runCommand") \/ triggerCalls[c] # <<>>) => type[c] = "MASTER"
        /\ queryHandler[c] # "none" => type[c] = "SYNC"
        /\ (TopologyDone(c) /\ type[c] = "MASTER") =>
              /\ HasOp(c, "runCommand")
              /\ queryHandler[c] = "none"
        /\ (TopologyDone(c) /\ type[c] = "SYNC") =>
              /\ queryHandler[c] = "SCCFastQueryHandler"
              /\ ~HasOp(c, "runCommand") /\ triggerCalls[c] = <<>>
              /\ phase[c] = "admitted"
        /\ (TopologyDone(c) /\ type[c] \notin {"MASTER", "SYNC"}) =>
              /\ queryHandler[c] = "none"
              /\ ~HasOp(c, "runCommand") /\ triggerCalls[c] = <<>>
              /\ phase[c] = "admitted"

C14_Witness ==
    \E c \in Conns :
        /\ type[c] = "SET" /\ authEnabled /\ shardedConnections
        /\ ret[c] = [op |-> "onCreate", status |-> "OK"]
        /\ log[c] = <<Ev("authenticateInternalUser", "true"),
                      Ev("setReplyMetadataReader", ""),
                      Ev("setRequestMetadataWriter", "")>>
        /\ queryHandler[c] = "none"

\* C15: onDestroy clears the connection's cached shard version (calls
\* resetShardVersionCB for it) exactly when the hook's flag is true and the
\* connection is versionable; with the flag false or the connection not
\* versionable it leaves every connection's version-tracking state as it
\* was, and it never touches another connection's.
ResetCalled(calls) == \E i \in 1..Len(calls) : calls[i].op = "resetShardVersionCB"

C16_AuthAttemptedIffEnabled ==
    \A c \in Conns :
        /\ phase[c] # "new" => (HasOp(c, "authenticateInternalUser") <=> authEnabled)
        /\ \A i \in 1..Len(log[c]) :
              log[c][i].op = "authenticateInternalUser" => (authEnabled /\ i = 1)
        /\ (authEnabled /\ log[c] # <<>>) => log[c][1].op = "authenticateInternalUser"
        /\ ~authEnabled =>
              /\ ret[c] # [op |-> "onCreate", status |-> AuthFailedCode]
              /\ (phase[c] = "rejected" => HasOp(c, "runCommand"))

C16_Witness ==
    \E c \in Conns :
        /\ ~authEnabled /\ ~shardedConnections /\ type[c] = "MASTER"
        /\ phase[c] = "admitted"
        /\ log[c][1] = Ev("setRequestMetadataWriter", "")

\* C17: over the lifecycle of a connection the metadata callbacks are
\* installed by onCreate only, each at most once and never replaced or
\* removed afterwards; onRelease and onDestroy leave both callbacks as they
\* are; and the hook's sharded-connections flag never changes.
Count(c, o) == Cardinality({i \in 1..Len(log[c]) : log[c][i].op = o})

C17_CallbacksSetOnceFlagFixed ==
    [][\A c \in Conns :
        /\ shardedConnections' = shardedConnections
        /\ replyMetadataReader'[c] # replyMetadataReader[c] =>
              (pc[c] = "install" /\ replyMetadataReader[c] = "none")
        /\ requestMetadataWriter'[c] # requestMetadataWriter[c] =>
              (pc[c] = "install" /\ requestMetadataWriter[c] = "none")
        /\ (ret'[c] # ret[c] /\ ret'[c].op \in {"onRelease", "onDestroy"}) =>
              /\ replyMetadataReader'[c] = replyMetadataReader[c]
              /\ requestMetadataWriter'[c] = requestMetadataWriter[c]
        /\ Count(c, "setReplyMetadataReader")' <= 1
        /\ Count(c, "setRequestMetadataWriter")' <= 1]_vars

C17_Witness ==
    \E c \in Conns :
        /\ destroyed[c] /\ shardedConnections /\ phase[c] = "admitted"
        /\ replyMetadataReader[c] = "saveGLEStats"
        /\ requestMetadataWriter[c] = "writeImpersonatedUsersToMetadata"
        /\ Count(c, "setReplyMetadataReader") = 1
        /\ Count(c, "setRequestMetadataWriter") = 1

\* C18: onCreate retries nothing: its position only moves forward until the
\* call ends, so that authentication, the probe and the trigger call happen
\* at most once per call, and once the call has failed nothing more is
\* done on the connection by onCreate.
PcRank(l) ==
    CASE l = "idle" -> 0
      [] l = "install" -> 1
      [] l = "topology" -> 2
      [] l = "probe" -> 3
      [] l = "extract" -> 4
      [] l = "trigger" -> 5
      [] l = "uassert" -> 6

C18_NoRetryInsideOnCreate ==
    [][\A c \in Conns :
        /\ Steps(c) => (pc'[c] = "idle" \/ PcRank(pc'[c]) > PcRank(pc[c]))
        /\ Count(c, "authenticateInternalUser")' <= 1
        /\ Count(c, "runCommand")' <= 1
        /\ Count(c, "scheduleReplaceCatalogManagerIfNeeded")' <= 1
        /\ Len(triggerCalls'[c]) <= 1
        /\ phase[c] = "rejected" =>
              /\ pc'[c] = "idle" /\ phase'[c] = "rejected"
              /\ log'[c] = log[c]
              /\ triggerCalls'[c] = triggerCalls[c]]_vars

C18_Witness ==
    \E c \in Conns :
        /\ phase[c] = "rejected" /\ authEnabled
        /\ ret[c] = [op |-> "onCreate", status |-> "IncompatibleCatalogManager"]
        /\ Count(c, "authenticateInternalUser") = 1
        /\ Count(c, "runCommand") = 1
        /\ Count(c, "scheduleReplaceCatalogManagerIfNeeded") = 1

\* C19: when onCreate on a MASTER connection fails in the topology step
\* (probe failure, protocol violation or trigger failure), the callbacks set
\* earlier in the call are still on the connection when the error is
\* returned: the request-metadata writer, and the reply-metadata reader when
\* the flag is true; and the probe was sent after they were set.
CallbacksInstalled(c) ==
    /\ requestMetadataWriter[c] = "writeImpersonatedUsersToMetadata"
    /\ shardedConnections => replyMetadataReader[c] = "saveGLEStats"

FirstIndex(c, o) == CHOOSE i \in 1..Len(log[c]) : log[c][i].op = o /\ \A j \in 1..(i - 1) : log[c][j].op # o

ProbeSentAfterInstall(c) ==
    /\ HasOp(c, "runCommand")
    /\ HasOp(c, "setRequestMetadataWriter")
    /\ FirstIndex(c, "setRequestMetadataWriter") < FirstIndex(c, "runCommand")
    /\ shardedConnections =>
          /\ HasOp(c, "setReplyMetadataReader")
          /\ FirstIndex(c, "setReplyMetadataReader") < FirstIndex(c, "runCommand")

C19_TopologyFailureKeepsCallbacks ==
    [][\A c \in Conns :
        (/\ Steps(c)
         /\ type[c] = "MASTER"
         /\ pc[c] \in {"probe", "extract", "trigger", "uassert"}
         /\ phase'[c] = "rejected") =>
            /\ CallbacksInstalled(c)'
            /\ ProbeSentAfterInstall(c)'
            /\ ret'[c].op = "onCreate" /\ ret'[c].status # "OK"]_vars

C19_Witness ==
    \E c \in Conns :
        /\ type[c] = "MASTER" /\ shardedConnections
        /\ phase[c] = "rejected" /\ ~destroyed[c]
        /\ ret[c] = [op |-> "onCreate", status |-> ProtocolViolationCode]
        /\ replyMetadataReader[c] = "saveGLEStats"
        /\ requestMetadataWriter[c] = "writeImpersonatedUsersToMetadata"
        /\ HasOp(c, "runCommand")
====
